---------------------------- MODULE Spec2Model ----------------------------
(***************************************************************************)
(* Model of include/compression.h (Akumuli): the base-128 integer codec    *)
(* Base128Int<TVal>, the byte-stream adapters Base128StreamWriter/Reader,  *)
(* and the stream transforms DeltaStreamWriter/Reader, RLEStreamWriter/    *)
(* Reader.                                                                 *)
(*                                                                         *)
(* A value of the unsigned type TVal (W bits) is the set of the positions  *)
(* of its 1 bits, a subset of 0..W-1, so that 64-bit values and their      *)
(* wrap-around are represented exactly.  A byte is a number in 0..255.     *)
(* An iterator is an offset from the start of its buffer.                  *)
(***************************************************************************)
EXTENDS Integers, Sequences, FiniteSets, TLC

VARIABLES
    W,        \* bit width of TVal, the template argument
    build,    \* what the build makes of a shift of an int by 32 or more
    \* ---- Base128Int on its own
    value_,   \* Base128Int::value_ of the encoded object
    buf,      \* caller's byte array holding the range [begin, end)
    buf0,     \* the content of buf before the call of put(begin, end)
    begin,    \* offset of the range's first byte
    end,      \* offset one past the range's last byte
    ret,      \* iterator returned by put(begin, end), NoRet before the call
    sink,     \* vector filled by put(Inserter&), empty before the call
    got,      \* result of get, NoGet before the call
    \* ---- stream pipeline
    shape,    \* kinds of the transforms, outermost first, over the Base128 stream
    wlayers,  \* writer objects of the transforms (prev_, reps_)
    data,     \* the bytes of the std::vector<unsigned char> under the pipeline,
              \* followed on the reading side by the memory behind them
    recv,     \* recv[i]: the values passed to put of the i-th stream, in order
    closes,   \* closes[i]: the number of calls of close of the i-th stream
    wok,      \* FALSE once an assertion of the writing side has failed
    phase,    \* "idle", "writing", "reading"
    rlayers,  \* reader objects of the transforms (prev_, reps_)
    pos_,     \* Base128StreamReader::pos_
    end_,     \* Base128StreamReader::end_
    rok,      \* FALSE once an assertion of the reading side has failed
    read,     \* read[i]: the values returned by next of the i-th stream, in order
    output    \* the values returned by next() of the outermost reader

codecVars  == <<value_, buf, buf0, begin, end, ret, sink, got>>
streamVars == <<shape, wlayers, data, recv, closes, wok, phase, rlayers, pos_,
               end_, rok, read, output>>
vars       == <<W, build, codecVars, streamVars>>

NoRet == -1
NoGet == [from |-> "none", value |-> {}, pos |-> 0, status |-> "none"]

(***************************************************************************)
(* Bounds of the model                                                     *)
(***************************************************************************)
MaxCap == 11      \* largest capacity end - begin of the bounded range
MaxLen == 3       \* largest number of single put calls of a free run
BurstLen == 255   \* number of put calls of the opening burst (8-bit TVal)
MaxMem == 4       \* largest number of bytes of the memory a lone reader is over

Widths == {8, 16, 32, 64}
IntBits == 32     \* width of int, the type of (i << cnt)

(***************************************************************************)
(* Unsigned W-bit arithmetic on sets of bit positions                      *)
(***************************************************************************)
Zero == {}
AllOnes(w) == 0..(w - 1)

\* the bits of a small natural number
NatBits(n) == {b \in 0..30 : (n \div (2 ^ b)) % 2 = 1}

RECURSIVE SumPow(_)
SumPow(s) == IF s = {} THEN 0
             ELSE LET b == CHOOSE x \in s : TRUE IN (2 ^ b) + SumPow(s \ {b})

\* value & 0x7F, as a byte
Low7(v) == SumPow(v \cap 0..6)

\* value >> 7
Shr7(v) == {b - 7 : b \in {x \in v : x >= 7}}

SetMax(s) == CHOOSE x \in s : \A y \in s : y <= x
SetMin(s) == CHOOSE x \in s : \A y \in s : x <= y

\* a >= b and a < b on unsigned values
Geq(a, b) == LET d == (a \ b) \cup (b \ a) IN d = {} \/ SetMax(d) \in a
Lt(a, b) == ~Geq(a, b)

\* v + 1 and v - 1 modulo 2^w
Inc(v, w) == LET k == SetMin((0..w) \ v)
             IN {b \in v : b > k} \cup (IF k < w THEN {k} ELSE {})
Dec(v, w) == IF v = {} THEN AllOnes(w)
             ELSE LET k == SetMin(v) IN {b \in v : b > k} \cup 0..(k - 1)

RECURSIVE AddC(_, _, _, _, _)
AddC(a, b, i, c, w) ==
    IF i >= w THEN {}
    ELSE LET s == (IF i \in a THEN 1 ELSE 0) + (IF i \in b THEN 1 ELSE 0) + c
         IN (IF s % 2 = 1 THEN {i} ELSE {}) \cup AddC(a, b, i + 1, s \div 2, w)

\* a + b and a - b modulo 2^w
Add(a, b, w) == AddC(a, b, 0, 0, w)
Sub(a, b, w) == AddC(a, AllOnes(w) \ b, 0, 1, w)

(***************************************************************************)
(* Base128Int                                                              *)
(***************************************************************************)

\* a put that sets no continuation bit
RECURSIVE Base128Int_put_inserter_plain(_)
Base128Int_put_inserter_plain(value) ==
    LET result == Low7(value)
        rest   == Shr7(value)
    IN IF rest # Zero
       THEN <<result>> \o Base128Int_put_inserter_plain(rest)
       ELSE <<result>>

\* Base128Int::put(Inserter&): the bytes appended for value
RECURSIVE Base128Int_put_inserter(_)
Base128Int_put_inserter(value) ==
    LET result == Low7(value)
        rest   == Shr7(value)
    IN IF rest # Zero
       THEN <<result + 128>> \o Base128Int_put_inserter(rest)
       ELSE <<result>>

\* the loop of Base128Int::put(begin, end) from position p on
RECURSIVE PutRangeLoop(_, _, _, _, _)
PutRangeLoop(b, p, value, bg, en) ==
    LET b1   == [b EXCEPT ![p + 1] = Low7(value)]
        rest == Shr7(value)
    IN IF rest # Zero
       THEN LET b2 == [b1 EXCEPT ![p + 1] = @ + 128]
            IN IF p + 1 = en
               THEN [buf |-> b2, ret |-> bg]
               ELSE PutRangeLoop(b2, p + 1, rest, bg, en)
       ELSE [buf |-> b1, ret |-> p + 1]

\* a check of the capacity made one byte too late
Base128Int_put_range_late(b, value, bg, en) ==
    IF bg >= en THEN [buf |-> b, ret |-> bg]
    ELSE LET r == PutRangeLoop(b, bg, value, bg, en)
         IN IF r.ret = en THEN [buf |-> r.buf, ret |-> bg] ELSE r

\* a put that does not look at the range before its first write
Base128Int_put_range_unguarded(b, value, bg, en) ==
    PutRangeLoop(b, bg, value, bg, en)

\* Base128Int::put(begin, end): the array and the iterator returned
Base128Int_put_range(b, value, bg, en) ==
    IF bg >= en THEN [buf |-> b, ret |-> bg]
    ELSE PutRangeLoop(b, bg, value, bg, en)

\* i << cnt, of type int (i is an unsigned char, promoted): the bits of the
\* result.  Below 32 the 32 low bits of the product are kept.  A count of 32
\* or more is undefined: the build either uses the count modulo 32 ("mask",
\* x86 and AArch64) or yields 0 ("zero", 32-bit ARM).
ShiftInt(i, cnt, bld) ==
    IF cnt >= IntBits
    THEN IF bld = "mask"
         THEN {b + (cnt % IntBits) : b \in NatBits(i)} \cap 0..(IntBits - 1)
         ELSE {}
    ELSE {b + cnt : b \in NatBits(i)} \cap 0..(IntBits - 1)

\* conversion of an int to TVal: truncation, or sign extension when TVal is wider
IntToTVal(x, w) ==
    IF w > IntBits /\ (IntBits - 1) \in x
    THEN x \cup (IntBits..(w - 1))
    ELSE x \cap 0..(w - 1)

\* cnt += 7 in TVal
CntNext(cnt, w) == IF w <= 16 THEN (cnt + 7) % (2 ^ w) ELSE cnt + 7

\* the loop of Base128Int::get from position p on
RECURSIVE GetLoop(_, _, _, _, _, _)
GetLoop(d, p, acc, cnt, w, bld) ==
    IF p >= Len(d)
    THEN [value |-> acc, pos |-> p, status |-> "overrun"]
    ELSE LET byte == d[p + 1]
             i    == byte % 128
             acc1 == acc \cup IntToTVal(ShiftInt(i, cnt, bld), w)
         IN IF byte < 128
            THEN [value |-> acc1, pos |-> p + 1, status |-> "ok"]
            ELSE GetLoop(d, p + 1, acc1, CntNext(cnt, w), w, bld)

\* Base128Int::get(begin, end) over the memory d: value_, the iterator returned,
\* and "assert" when assert(begin < end) fails, "overrun" when the loop reads
\* behind the last byte of d (the loop does not look at end)
Base128Int_get(d, bg, en, w, bld) ==
    IF ~(bg < en)
    THEN [value |-> Zero, pos |-> bg, status |-> "assert"]
    ELSE GetLoop(d, bg, Zero, 0, w, bld)


(***************************************************************************)
(* Base128Int on its own: one value, encoded into a bounded range and into *)
(* a growing vector, and decoded again                                     *)
(***************************************************************************)

\* the values tried: every 8-bit value; for the wider types zero, every power
\* of two and every value of the form 2^k - 1, the maximum included
Samples(w) ==
    IF w = 8 THEN SUBSET (0..7)
    ELSE {Zero} \cup {{k} : k \in 0..(w - 1)} \cup {0..k : k \in 0..(w - 1)}

\* the shift by 32 or more is reached only when TVal is wider than int
Builds(w) == IF w > IntBits THEN {"mask", "zero"} ELSE {"mask"}

Fills == {0, 255}

IdleStream ==
    /\ shape = <<>> /\ wlayers = <<>> /\ data = <<>> /\ recv = <<>>
    /\ closes = <<>>
    /\ wok = TRUE /\ phase = "idle" /\ rlayers = <<>> /\ pos_ = 0 /\ end_ = 0
    /\ rok = TRUE /\ read = <<>> /\ output = <<>>

InitCodec ==
    /\ W \in Widths
    /\ build \in Builds(W)
    /\ value_ \in Samples(W)
    /\ begin \in 0..1
    /\ \E cap \in 0..MaxCap : end = begin + cap
    /\ \E fill \in Fills : buf = [i \in 1..(MaxCap + 2) |-> fill]
    /\ buf0 = buf
    /\ ret = NoRet /\ sink = <<>> /\ got = NoGet
    /\ IdleStream

\* val.put(begin, end)
PutRange ==
    /\ ret = NoRet
    /\ LET r == Base128Int_put_range(buf, value_, begin, end)
       IN buf' = r.buf /\ ret' = r.ret
    /\ UNCHANGED <<W, build, value_, buf0, begin, end, sink, got, streamVars>>

\* val.put(it) with it = std::back_inserter of an empty vector
PutInserter ==
    /\ sink = <<>>
    /\ sink' = Base128Int_put_inserter(value_)
    /\ UNCHANGED <<W, build, value_, buf, buf0, begin, end, ret, got, streamVars>>

\* other.get(v.begin(), v.end()) over the vector filled by put(Inserter&)
GetSink ==
    /\ sink # <<>> /\ got = NoGet
    /\ got' = [from |-> "sink"] @@ Base128Int_get(sink, 0, Len(sink), W, build)
    /\ UNCHANGED <<W, build, value_, buf, buf0, begin, end, ret, sink, streamVars>>

\* other.get(begin, ret) over the range a successful put(begin, end) has filled
GetRange ==
    /\ ret # NoRet /\ ret # begin /\ got = NoGet
    /\ got' = [from |-> "range"] @@ Base128Int_get(buf, begin, ret, W, build)
    /\ UNCHANGED <<W, build, value_, buf, buf0, begin, end, ret, sink, streamVars>>

NextCodec == PutRange \/ PutInserter \/ GetSink \/ GetRange

SpecCodec == InitCodec /\ [][NextCodec]_vars


(***************************************************************************)
(* Stream writers.  A pipeline is the sequence of its transforms,          *)
(* outermost first, over a Base128StreamWriter; stream i wraps stream      *)
(* i + 1, and stream Len(layers) + 1 is the Base128StreamWriter.  The      *)
(* writing side is the record ws of the transforms' objects (layers), the  *)
(* vector (data), the values each stream's put was called with (recv), how *)
(* often each stream's close was called (closes) and whether no assertion  *)
(* has failed (ok); a failed assertion ends the program.                   *)
(***************************************************************************)
NewLayer(kind) == [kind |-> kind, prev_ |-> Zero, reps_ |-> Zero]

RECURSIVE StreamPut(_, _, _)
RECURSIVE StreamClose(_, _)
RECURSIVE StreamSize(_, _)

\* Base128StreamWriter::put
Base128StreamWriter_put(ws, value) ==
    [ws EXCEPT !.data = @ \o Base128Int_put_inserter(value)]

\* DeltaStreamWriter::put with the assertion compiled out
DeltaStreamWriter_put_unchecked(ws, i, value) ==
    LET delta == Sub(value, ws.layers[i].prev_, W)
        ws1   == StreamPut(ws, i + 1, delta)
    IN IF ws1.ok THEN [ws1 EXCEPT !.layers[i].prev_ = value] ELSE ws1

\* DeltaStreamWriter::put
DeltaStreamWriter_put(ws, i, value) ==
    IF ~Geq(value, ws.layers[i].prev_)
    THEN [ws EXCEPT !.ok = FALSE]
    ELSE LET delta == Sub(value, ws.layers[i].prev_, W)
             ws1   == StreamPut(ws, i + 1, delta)
         IN IF ws1.ok THEN [ws1 EXCEPT !.layers[i].prev_ = value] ELSE ws1

\* a close that keeps the call to itself
DeltaStreamWriter_close_kept(ws, i) == ws

\* DeltaStreamWriter::close
DeltaStreamWriter_close(ws, i) == StreamClose(ws, i + 1)

\* Base128StreamWriter::size
Base128StreamWriter_size(ws) == Len(ws.data)

\* DeltaStreamWriter::size
DeltaStreamWriter_size(ws, i) == StreamSize(ws, i + 1)

\* RLEStreamWriter::size
RLEStreamWriter_size(ws, i) == StreamSize(ws, i + 1)

\* RLEStreamWriter::put
RLEStreamWriter_put(ws, i, value) ==
    LET me  == ws.layers[i]
        ws1 == IF value # me.prev_
               THEN LET c == IF me.reps_ # Zero
                             THEN StreamPut(StreamPut(ws, i + 1, me.reps_),
                                            i + 1, me.prev_)
                             ELSE ws
                    IN IF c.ok
                       THEN [c EXCEPT !.layers[i].prev_ = value,
                                      !.layers[i].reps_ = Zero]
                       ELSE c
               ELSE ws
    IN IF ws1.ok THEN [ws1 EXCEPT !.layers[i].reps_ = Inc(@, W)] ELSE ws1

\* RLEStreamWriter::close
RLEStreamWriter_close(ws, i) ==
    StreamPut(StreamPut(ws, i + 1, ws.layers[i].reps_), i + 1, ws.layers[i].prev_)

\* stream_.put(value) on stream i; nothing runs once an assertion has failed
StreamPut(ws, i, value) ==
    IF ~ws.ok THEN ws
    ELSE LET called == [ws EXCEPT !.recv[i] = Append(@, value)]
         IN IF i > Len(ws.layers) THEN Base128StreamWriter_put(called, value)
            ELSE IF ws.layers[i].kind = "Delta"
                 THEN DeltaStreamWriter_put(called, i, value)
                 ELSE RLEStreamWriter_put(called, i, value)

\* stream_.close() on stream i; Base128StreamWriter::close does nothing
StreamClose(ws, i) ==
    IF ~ws.ok THEN ws
    ELSE LET called == [ws EXCEPT !.closes[i] = @ + 1]
         IN IF i > Len(ws.layers) THEN called
            ELSE IF ws.layers[i].kind = "Delta"
                 THEN DeltaStreamWriter_close(called, i)
                 ELSE RLEStreamWriter_close(called, i)

\* stream_.size() on stream i
StreamSize(ws, i) ==
    IF i > Len(ws.layers) THEN Base128StreamWriter_size(ws)
    ELSE IF ws.layers[i].kind = "Delta"
         THEN DeltaStreamWriter_size(ws, i)
         ELSE RLEStreamWriter_size(ws, i)

\* n calls of put(value) on the outermost stream (the first half of the calls,
\* then the rest)
RECURSIVE PutTimes(_, _, _)
PutTimes(ws, value, n) ==
    IF n = 0 THEN ws
    ELSE IF n = 1 THEN StreamPut(ws, 1, value)
    ELSE LET half == PutTimes(ws, value, n \div 2)
         IN IF half.ok THEN PutTimes(half, value, n - (n \div 2)) ELSE half

(***************************************************************************)
(* Stream readers, stacked like the writers over a Base128StreamReader.    *)
(* The reading side is the record rs of the transforms' objects (layers),  *)
(* Base128StreamReader::pos_ and end_ (pos, end), the values each stream's *)
(* next has returned (read) and whether the program still runs (ok); d     *)
(* holds the vector's bytes and the memory behind them.  next() yields the *)
(* new rs and the value returned.                                          *)
(***************************************************************************)
RECURSIVE StreamNext(_, _, _)

\* Base128StreamReader::next; a failed assert(begin < end) ends the program,
\* and so does a read behind the last byte of d
Base128StreamReader_next(rs, d) ==
    LET g == Base128Int_get(d, rs.pos, rs.end, W, build)
    IN IF g.status = "ok"
       THEN [rs |-> [rs EXCEPT !.pos = g.pos], value |-> g.value]
       ELSE [rs |-> [rs EXCEPT !.ok = FALSE], value |-> Zero]

\* DeltaStreamReader::next
DeltaStreamReader_next(rs, d, i) ==
    LET r == StreamNext(rs, d, i + 1)
    IN IF ~r.rs.ok THEN r
       ELSE LET value == Add(rs.layers[i].prev_, r.value, W)
            IN [rs |-> [r.rs EXCEPT !.layers[i].prev_ = value], value |-> value]

\* a next that loads a pair on every call, exhausted run or not
RLEStreamReader_next_eager(rs, d, i) ==
    LET r1 == StreamNext(rs, d, i + 1)
        r2 == StreamNext(r1.rs, d, i + 1)
    IN IF ~r1.rs.ok THEN [rs |-> r1.rs, value |-> Zero]
       ELSE IF ~r2.rs.ok THEN [rs |-> r2.rs, value |-> Zero]
       ELSE [rs |-> [r2.rs EXCEPT !.layers[i].reps_ = Dec(r1.value, W),
                                  !.layers[i].prev_ = r2.value],
             value |-> r2.value]

\* RLEStreamReader::next
RLEStreamReader_next(rs, d, i) ==
    LET loaded ==
            IF rs.layers[i].reps_ = Zero
            THEN LET r1 == StreamNext(rs, d, i + 1)
                     r2 == StreamNext(r1.rs, d, i + 1)
                 IN IF ~r1.rs.ok THEN r1.rs
                    ELSE IF ~r2.rs.ok THEN r2.rs
                    ELSE [r2.rs EXCEPT !.layers[i].reps_ = r1.value,
                                       !.layers[i].prev_ = r2.value]
            ELSE rs
    IN IF ~loaded.ok THEN [rs |-> loaded, value |-> Zero]
       ELSE [rs |-> [loaded EXCEPT !.layers[i].reps_ = Dec(@, W)],
             value |-> loaded.layers[i].prev_]

\* stream_.next() on stream i
StreamNext(rs, d, i) ==
    LET r == IF i > Len(rs.layers) THEN Base128StreamReader_next(rs, d)
             ELSE IF rs.layers[i].kind = "Delta"
                  THEN DeltaStreamReader_next(rs, d, i)
                  ELSE RLEStreamReader_next(rs, d, i)
    IN IF r.rs.ok
       THEN [rs |-> [r.rs EXCEPT !.read[i] = Append(@, r.value)], value |-> r.value]
       ELSE r


(***************************************************************************)
(* A pipeline at work: a writer stack is built over an empty vector, fed   *)
(* and closed; then a reader stack of the same shape is built over the     *)
(* vector and read as many times as values were put.                       *)
(***************************************************************************)
Shapes == {<<>>, <<"RLE">>, <<"Delta">>, <<"RLE", "Delta">>,
           <<"Delta", "RLE">>, <<"RLE", "RLE">>}

\* the values put freely: 0, 1, 128 (two bytes), the maximum, and 2^31 when
\* TVal is wider than int
Values(w) ==
    {Zero, {0}, {7}, AllOnes(w)}
        \cup (IF w > IntBits THEN {{IntBits - 1}} ELSE {})

\* the sequences put value by value, beyond MaxLen
Examples ==
    { [i \in 1..6 |-> NatBits(<<100, 100, 100, 105, 105, 110>>[i])],
      [i \in 1..6 |-> NatBits(<<1, 1, 1, 2, 2, 3>>[i])],
      [i \in 1..2 |-> NatBits(<<5, 3>>[i])] }

\* the values of the opening burst: 0 and 1
BurstValues == {Zero, {0}}

IdleCodec ==
    /\ value_ = Zero /\ buf = <<>> /\ buf0 = <<>> /\ begin = 0 /\ end = 0
    /\ ret = NoRet /\ sink = <<>> /\ got = NoGet

\* the values put into the outermost writer so far
input == recv[1]

\* the writing side as one record, and back
WS == [layers |-> wlayers, data |-> data, recv |-> recv, closes |-> closes,
       ok |-> wok]

SetWS(ws) ==
    /\ wlayers' = ws.layers
    /\ data' = ws.data
    /\ recv' = ws.recv
    /\ closes' = ws.closes
    /\ wok' = ws.ok

RS == [layers |-> rlayers, pos |-> pos_, end |-> end_, read |-> read, ok |-> rok]

\* the put calls made outside the opening burst
FreePuts == IF Len(input) >= BurstLen THEN Len(input) - BurstLen ELSE Len(input)

Init ==
    /\ W \in Widths
    /\ build \in Builds(W)
    /\ shape \in Shapes
    /\ wlayers = [i \in 1..Len(shape) |-> NewLayer(shape[i])]
    /\ data = <<>>
    /\ recv = [i \in 1..(Len(shape) + 1) |-> <<>>]
    /\ closes = [i \in 1..(Len(shape) + 1) |-> 0]
    /\ wok = TRUE
    /\ phase = "writing"
    /\ rlayers = <<>> /\ pos_ = 0 /\ end_ = 0 /\ rok = TRUE
    /\ read = [i \in 1..(Len(shape) + 1) |-> <<>>]
    /\ output = <<>>
    /\ IdleCodec

\* writer.put(v)
Put(v) ==
    /\ phase = "writing" /\ wok
    /\ FreePuts < MaxLen
    /\ SetWS(StreamPut(WS, 1, v))
    /\ UNCHANGED <<W, build, codecVars, shape, phase, rlayers, pos_, end_, rok,
                   read, output>>

\* writer.put of the next value of the example e
PutExample(e) ==
    /\ phase = "writing" /\ wok
    /\ Len(input) < Len(e)
    /\ input = SubSeq(e, 1, Len(input))
    /\ SetWS(StreamPut(WS, 1, e[Len(input) + 1]))
    /\ UNCHANGED <<W, build, codecVars, shape, phase, rlayers, pos_, end_, rok,
                   read, output>>

\* for (i = 0; i < BurstLen; i++) writer.put(v), on a new writer of the 8-bit
\* type, the width whose counters a run of this length can wrap
PutBurst(v) ==
    /\ phase = "writing" /\ wok
    /\ W = 8 /\ input = <<>>
    /\ SetWS(PutTimes(WS, v, BurstLen))
    /\ UNCHANGED <<W, build, codecVars, shape, phase, rlayers, pos_, end_, rok,
                   read, output>>

\* writer.close()
Close ==
    /\ phase = "writing" /\ wok
    /\ SetWS(StreamClose(WS, 1))
    /\ phase' = "closed"
    /\ UNCHANGED <<W, build, codecVars, shape, rlayers, pos_, end_, rok, read,
                   output>>

\* the readers' constructors, over the vector the closed writer has filled
Open ==
    /\ phase = "closed" /\ wok
    /\ rlayers' = [i \in 1..Len(shape) |-> NewLayer(shape[i])]
    /\ pos_' = 0
    /\ end_' = Len(data)
    /\ phase' = "reading"
    /\ UNCHANGED <<W, build, codecVars, shape, wlayers, data, recv, closes, wok,
                   rok, read, output>>

\* reader.next(), while fewer values were read than were put
Next_ ==
    /\ phase = "reading" /\ rok
    /\ Len(output) < Len(input)
    /\ LET r == StreamNext(RS, data, 1)
       IN /\ rlayers' = r.rs.layers
          /\ pos_' = r.rs.pos
          /\ rok' = r.rs.ok
          /\ read' = r.rs.read
          /\ output' = IF r.rs.ok THEN Append(output, r.value) ELSE output
    /\ UNCHANGED <<W, build, codecVars, shape, wlayers, data, recv, closes, wok,
                   phase, end_>>

Next ==
    \/ \E v \in Values(W) : Put(v)
    \/ \E e \in Examples : PutExample(e)
    \/ \E v \in BurstValues : PutBurst(v)
    \/ Close
    \/ Open
    \/ Next_

Spec == Init /\ [][Next]_vars

(***************************************************************************)
(* A Base128StreamReader over bytes that no writer of this header has      *)
(* produced: data holds the vector's bytes, up to end_, and behind them    *)
(* the bytes the process can read there; a read behind data faults.        *)
(***************************************************************************)
\* the bytes tried: with and without the continuation bit, payload 0 and 127
Bytes == {0, 127, 128, 255}

RECURSIVE ByteSeqs(_)
ByteSeqs(n) ==
    IF n = 0 THEN {<<>>}
    ELSE LET shorter == ByteSeqs(n - 1)
         IN shorter \cup {Append(q, b) : q \in {x \in shorter : Len(x) = n - 1},
                                         b \in Bytes}

InitReader ==
    /\ W \in Widths
    /\ build \in Builds(W)
    /\ shape = <<>>
    /\ wlayers = <<>>
    /\ data \in ByteSeqs(MaxMem)
    /\ recv = << <<>> >>
    /\ closes = <<0>>
    /\ wok = TRUE
    /\ phase = "reading"
    /\ rlayers = <<>>
    /\ pos_ = 0
    /\ end_ \in 0..Len(data)
    /\ rok = TRUE
    /\ read = << <<>> >>
    /\ output = <<>>
    /\ IdleCodec

\* reader.next(), as long as the program runs
NextRaw ==
    /\ phase = "reading" /\ rok
    /\ LET r == StreamNext(RS, data, 1)
       IN /\ rlayers' = r.rs.layers
          /\ pos_' = r.rs.pos
          /\ rok' = r.rs.ok
          /\ read' = r.rs.read
          /\ output' = IF r.rs.ok THEN Append(output, r.value) ELSE output
    /\ UNCHANGED <<W, build, codecVars, shape, wlayers, data, recv, closes, wok,
                   phase, end_>>

SpecReader == InitReader /\ [][NextRaw]_vars


(***************************************************************************)
(* Notions the properties are stated in                                    *)
(***************************************************************************)
Last(s) == s[Len(s)]

\* the number of bytes of the encoding of v: max(1, ceil(bitlength(v) / 7))
EncodedLen(v) == IF v = Zero THEN 1 ELSE (SetMax(v) + 7) \div 7

NonDecreasing(s) == \A k \in 1..(Len(s) - 1) : Geq(s[k + 1], s[k])

HasRun(s) == \E k \in 1..(Len(s) - 1) : s[k + 1] = s[k]

\* the length of the maximal run of equal values s starts with, s not empty
HeadRun(s) ==
    CHOOSE n \in 1..Len(s) :
        /\ \A j \in 1..n : s[j] = s[1]
        /\ n = Len(s) \/ s[n + 1] # s[1]

\* the length of the maximal run of equal values s ends with, s not empty
TailRun(s) ==
    CHOOSE n \in 1..Len(s) :
        /\ \A j \in 1..n : s[Len(s) + 1 - j] = Last(s)
        /\ n = Len(s) \/ s[Len(s) - n] # Last(s)

\* for each maximal run of s in order, its length and its value
RECURSIVE RunPairs(_)
RunPairs(s) ==
    IF s = <<>> THEN <<>>
    ELSE LET n == HeadRun(s)
         IN <<NatBits(n), s[1]>> \o RunPairs(SubSeq(s, n + 1, Len(s)))

\* the values read so far are the values put, in order
ReadsInput == output = SubSeq(input, 1, Len(output))

RLEOnly   == <<"RLE">>
DeltaOnly == <<"Delta">>
RLEDelta  == <<"RLE", "Delta">>

Example100 == [i \in 1..6 |-> NatBits(<<100, 100, 100, 105, 105, 110>>[i])]
Example53  == [i \in 1..2 |-> NatBits(<<5, 3>>[i])]

\* the value before the k-th of the values r a delta writer was given
Before(r, k) == IF k = 1 THEN Zero ELSE r[k - 1]

(***************************************************************************)
(* Properties                                                              *)
(***************************************************************************)

\* C1: over RLEStreamWriter/Reader on a Base128 stream, the values returned by
\* as many next() calls as values were put, after close(), are the values put,
\* in order, and no call fails.
C1_RLERoundTrip ==
    (shape = RLEOnly /\ phase = "reading") => (rok /\ ReadsInput)

C3_CodecRoundTrip ==
    got # NoGet =>
        /\ got.status = "ok"
        /\ got.value = value_
        /\ got.pos = (IF got.from = "sink" THEN Len(sink) ELSE ret)

\* C4: over DeltaStreamWriter/Reader on a Base128 stream, the values returned
\* by as many next() calls as (non-decreasing) values were put are the values
\* put, in order, and no call fails.
C4_DeltaRoundTrip ==
    (shape = DeltaOnly /\ phase = "reading" /\ NonDecreasing(input))
        => (rok /\ ReadsInput)

\* C5: when put(begin, end) returns begin, every byte of [begin, end) holds
\* what it held before the call.
C5_FailedPutLeavesRange ==
    (ret # NoRet /\ ret = begin) =>
        \A p \in begin..(end - 1) : buf[p + 1] = buf0[p + 1]

\* C6: put(begin, end) returns begin + n when the range holds at least the n
\* bytes of the encoding, and begin when it holds fewer; a successful call
\* never returns begin.
C6_PutRangeCapacity ==
    ret # NoRet =>
        LET n == EncodedLen(value_)
        IN IF end - begin >= n THEN ret = begin + n /\ ret # begin
           ELSE ret = begin

\* the maximum of the 64-bit type into a range of exactly ceil(64 / 7) bytes
C6_Witness ==
    /\ ret # NoRet /\ W = 64 /\ value_ = AllOnes(64)
    /\ end - begin = 10 /\ ret = end

\* C7: a value smaller than the previous one given to DeltaStreamWriter::put is
\* rejected: the program stops at that call, nothing is handed to the wrapped
\* stream for it, and prev_ keeps the previous value.
C7_DeltaRejectsDecrease ==
    \A i \in 1..Len(shape) :
        shape[i] = "Delta" =>
            \A k \in 1..Len(recv[i]) :
                Lt(recv[i][k], Before(recv[i], k)) =>
                    /\ k = Len(recv[i])
                    /\ ~wok
                    /\ Len(recv[i + 1]) = k - 1
                    /\ wlayers[i].prev_ = Before(recv[i], k)

C7_Witness ==
    shape = DeltaOnly /\ input = Example53 /\ ~wok

\* C8: after the puts of a non-empty sequence and close(), the wrapped stream
\* of an RLEStreamWriter was given, for each maximal run of the sequence in
\* order, the run's length and then its value.
C8_RLEPairs ==
    (shape = RLEOnly /\ phase = "closed" /\ input # <<>>)
        => recv[2] = RunPairs(input)

\* C9: an RLEStreamWriter that has received a put never hands a run length of
\* 0 to its wrapped stream (the run lengths are the 1st, 3rd, ... value).
C9_NoZeroRunLength ==
    \A i \in 1..Len(shape) :
        (shape[i] = "RLE" /\ recv[i] # <<>>) =>
            \A k \in 1..Len(recv[i + 1]) :
                k % 2 = 1 => recv[i + 1][k] # Zero

\* C10: a put of the current run's value hands nothing to the wrapped stream
\* and leaves size() as it is; a put hands something over only when its value
\* differs from that of the current, non-empty run, and then exactly that
\* run's length and value; before close() fewer runs have been handed over
\* than the input has, the last one being still with the writer.
C10_PutCommitsFinishedRun ==
    [][(shape = RLEOnly /\ phase = "writing" /\ Len(input') = Len(input) + 1) =>
          /\ (input # <<>> /\ Last(input') = Last(input))
                 => (recv'[2] = recv[2] /\ Len(data') = Len(data))
          /\ recv'[2] # recv[2]
                 => /\ input # <<>>
                    /\ Last(input') # Last(input)
                    /\ recv'[2] = recv[2]
                           \o <<NatBits(TailRun(input)), Last(input)>>
          /\ phase' = "writing"
                 => Len(recv'[2]) < Len(RunPairs(input'))
      ]_vars


\* C11: the cursor of a Base128StreamReader never passes end_, whatever the
\* bytes are (the bytes read by next() are those before the cursor it leaves).
C11_CursorWithinEnd ==
    (shape = <<>> /\ phase = "reading") => pos_ <= end_


\* the number of bytes of the encodings of the first n values of s
RECURSIVE EncodedLenSum(_, _)
EncodedLenSum(s, n) ==
    IF n = 0 THEN 0 ELSE EncodedLenSum(s, n - 1) + EncodedLen(s[n])

BaseOnly == <<>>

\* the cursor after k calls of next() is behind the k-th encoding, and behind
\* the last one it is at end_
CursorWalksEncodings ==
    /\ pos_ = EncodedLenSum(input, Len(output))
    /\ Len(output) = Len(input) => pos_ = end_

\* C12: over a Base128StreamWriter/Reader pair, the k-th next() returns the
\* k-th value put and consumes exactly the bytes of its encoding; after the
\* last one the cursor is at the end of the buffer.
C12_BaseStreamRoundTrip ==
    (shape = BaseOnly /\ phase = "reading")
        => (rok /\ ReadsInput /\ CursorWalksEncodings)


RLERLE   == <<"RLE", "RLE">>
DeltaRLE == <<"Delta", "RLE">>

\* C13: over RLE wrapping RLE wrapping Base128, after the puts and one close()
\* of the outer writer, as many next() calls as values were put return the
\* values put, in order, and none fails.
C13_NestedRLERoundTrip ==
    (shape = RLERLE /\ phase = "reading") => (rok /\ ReadsInput)

\* C14: over Delta wrapping RLE wrapping Base128, after the puts of a
\* non-decreasing sequence and one close() of the delta writer, as many next()
\* calls as values were put return the values put, in order, and none fails.
C14_DeltaOverRLERoundTrip ==
    (shape = DeltaRLE /\ phase = "reading" /\ NonDecreasing(input))
        => (rok /\ ReadsInput)

\* the delta transforms of the pipeline
DeltaLayers == {i \in 1..Len(shape) : shape[i] = "Delta"}

\* the put calls of stream i that have passed its assertion: all of them, or
\* all but the last once an assertion has failed (the only assertions of the
\* writing side are those of the delta transform, and no pipeline has two)
Accepted(i) == IF wok THEN Len(recv[i]) ELSE Len(recv[i]) - 1

\* C15: a delta transform is one-to-one with the stream it wraps: the k-th
\* accepted put has put value - prev once and left prev = value, close has
\* closed the wrapped stream once and put nothing, every next has called the
\* wrapped next once, and size() is the wrapped stream's size().
C15_DeltaOneToOne ==
    \A i \in DeltaLayers :
        LET n == Accepted(i)
        IN /\ Len(recv[i + 1]) = n
           /\ \A k \in 1..n : recv[i + 1][k] = Sub(recv[i][k], Before(recv[i], k), W)
           /\ wlayers[i].prev_ = (IF n = 0 THEN Zero ELSE recv[i][n])
           /\ closes[i + 1] = closes[i]
           /\ DeltaStreamWriter_size(WS, i) = StreamSize(WS, i + 1)
           /\ StreamSize(WS, i) = Len(data)
           /\ Len(read[i + 1]) = Len(read[i])

\* two different values went through a delta writer, the writer was closed and
\* both values were read back
C15_Witness ==
    /\ shape = DeltaOnly /\ phase = "reading"
    /\ Len(input) >= 2 /\ input[2] # input[1]
    /\ closes = <<1, 1>>
    /\ Len(data) > 0
    /\ Len(output) = Len(input)

\* the RLE transforms of the pipeline
RLELayers == {i \in 1..Len(shape) : shape[i] = "RLE"}

\* the values a reader has taken from the stream it wraps, seen as pairs: the
\* run length and the run value of the m-th pair, and the lengths of the first
\* m pairs together
PairCount(p, m) == SumPow(p[2 * m - 1])
PairValue(p, m) == p[2 * m]

RECURSIVE CountSum(_, _)
CountSum(p, m) == IF m = 0 THEN 0 ELSE CountSum(p, m - 1) + PairCount(p, m)

\* the pair whose run holds the j-th value returned
Covering(p, j) ==
    CHOOSE m \in 1..(Len(p) \div 2) : CountSum(p, m - 1) < j /\ j <= CountSum(p, m)

\* C16: an RLE reader takes values from the stream it wraps two at a time, the
\* run length and then the run value, and only when the run it holds is used
\* up; as long as every run length taken is at least 1, the j-th value returned
\* is the value of the pair whose run holds position j, and reps_ is what is
\* left of the last run.
C16_RLEReaderRuns ==
    \A i \in RLELayers :
        LET p   == read[i + 1]
            np  == Len(p) \div 2
            out == read[i]
        IN (phase = "reading" /\ \A m \in 1..np : p[2 * m - 1] # Zero) =>
            /\ rok => Len(p) = 2 * np
            /\ Len(out) <= CountSum(p, np)
            /\ np > 0 => Len(out) > CountSum(p, np - 1)
            /\ \A j \in 1..Len(out) : out[j] = PairValue(p, Covering(p, j))
            /\ rok => rlayers[i].reps_ = NatBits(CountSum(p, np) - Len(out))

\* the runs (3, 100), (2, 105), (1, 110) were read back through an RLE reader
C16_Witness ==
    /\ shape = RLEOnly /\ phase = "reading"
    /\ output = Example100
    /\ Len(read[2]) = 6

\* the k-th group of 7 bits of v, least significant first, as a number
Group7(v, k) == SumPow({b - 7 * (k - 1) : b \in v \cap (7 * (k - 1))..(7 * k - 1)})

\* bytes is the varint of v: max(1, ceil(bitlength / 7)) bytes, at most
\* ceil(W / 7); high bit set on all but the last; the groups of v in the low
\* bits, least significant first
IsVarint(bytes, v) ==
    /\ Len(bytes) = EncodedLen(v)
    /\ Len(bytes) <= (W + 6) \div 7
    /\ \A k \in 1..(Len(bytes) - 1) : bytes[k] >= 128
    /\ bytes[Len(bytes)] < 128
    /\ \A k \in 1..Len(bytes) : bytes[k] % 128 = Group7(v, k)
    /\ v = Zero => bytes = <<0>>

\* the bytes a bounded put has written and handed back as [begin, ret)
Written == SubSeq(buf, begin + 1, ret)

\* C17: what put(Inserter&) appends, and what put(begin, end) writes when the
\* range is large enough, is the varint of the value: max(1, ceil(bitlength/7))
\* bytes, never more than ceil(W/7), continuation bit on all but the last,
\* 7-bit groups from least to most significant, and 00 alone for 0.
C17_VarintShape ==
    /\ sink # <<>> => IsVarint(sink, value_)
    /\ (ret # NoRet /\ ret # begin) => IsVarint(Written, value_)

\* the largest 64-bit value was encoded both ways, in 10 bytes
C17_Witness ==
    /\ W = 64 /\ value_ = AllOnes(W)
    /\ Len(sink) = 10
    /\ ret = begin + 10

\* C18: when the range holds at least as many bytes as put(Inserter&) appends
\* for the value, put(begin, end) writes exactly those bytes from begin on and
\* returns begin plus their number; where put(begin, end) fails, put(Inserter&)
\* has appended its bytes all the same, more of them than the range holds.
C18_BoundedMatchesUnbounded ==
    /\ (ret # NoRet /\ sink # <<>> /\ end - begin >= Len(sink)) =>
            (ret = begin + Len(sink) /\ Written = sink)
    /\ (ret = begin /\ sink # <<>>) => Len(sink) > end - begin

\* a value of several bytes was put both ways, into a range of exactly its size
C18_Witness ==
    /\ ret # NoRet /\ Len(sink) >= 2
    /\ end - begin = Len(sink)
    /\ ret = end

\* C19: put(begin, end) leaves every byte before begin and every byte at or
\* behind end as it was, whatever the value and the capacity, the empty range
\* and a range smaller than the encoding included.
C19_PutStaysInRange ==
    \A k \in 1..Len(buf) : (k <= begin \/ k > end) => buf[k] = buf0[k]

\* a put that ran out of room has written into a range that does not start
\* at the first byte of the array
C19_Witness ==
    /\ ret = begin /\ begin = 1 /\ end > begin
    /\ buf # buf0

=============================================================================
